---- MODULE Spec2Model ----
(***************************************************************************)
(* Model of glium's pixel-buffer staging object (src/src/pixel_buffer.rs)  *)
(* and of the index / primitive-source abstraction (src/src/index/mod.rs). *)
(*                                                                         *)
(* Three specifications share the module:                                  *)
(*   Spec        - one PixelBuffer object and the calls made on it         *)
(*   SpecCaps    - the capability predicates of PrimitiveType, IndexType   *)
(*                 and the Index trait, under a capability source          *)
(*   SpecIndices - IndicesSource values, the NoIndices conversions and     *)
(*                 get_primitives_type                                     *)
(***************************************************************************)
EXTENDS Integers, Sequences, FiniteSets, TLC

VARIABLES
    pixelBuffer, \* the PixelBuffer object
    created,     \* the capacity that was passed to new_empty
    lastStore,   \* arguments of the most recent store_infos, if any
    reads,       \* reads since new_empty or the last store_infos (saturating)
    ret,         \* outcome of the most recent call on the PixelBuffer
    caps,        \* the capability source (version and extension flags)
    capsRes,     \* outcome of the most recent capability query
    indices,     \* the IndicesSource value currently held, if any
    given,       \* the PrimitiveType the held IndicesSource was built with
    idxRes       \* outcome of the most recent get_primitives_type call

vars == <<pixelBuffer, created, lastStore, reads, ret, caps, capsRes, indices, given, idxRes>>

pixelVars == <<pixelBuffer, created, lastStore, reads, ret>>
capsVars == <<caps, capsRes>>
indicesVars == <<indices, given, idxRes>>

----------------------------------------------------------------------------
(* Bounds of the model *)

MaxCapacity == 2
MaxDim == 1
MaxByte == 1
MaxReads == 2
MaxMajor == 4
MaxMinor == 1
MaxVerticesPerPatch == 1
MaxSlice == 1

----------------------------------------------------------------------------
(* Option<T> *)

None == <<>>
Some(x) == <<x>>

----------------------------------------------------------------------------
(* Pixel buffers: src/src/pixel_buffer.rs *)

Capacities == 1..MaxCapacity
Dimensions == (0..MaxDim) \X (0..MaxDim)
ClientFormat == {"U8", "U8U8U8", "F32F32F32F32"}
Bytes == 0..MaxByte

\* A facade (context) either can or cannot read a buffer back to the host.
Facades == [canRead : BOOLEAN]

\* BufferView::<u8>::empty(facade, PixelPackBuffer, capacity, false)
BufferView_empty(facade, capacity) ==
    [size |-> capacity, canRead |-> facade.canRead]

\* BufferViewAny::get_size
BufferViewAny_get_size(buffer) == buffer.size

\* BufferViewAny::read_if_supported: the bytes, or None when the backend
\* cannot read the buffer.  `data` is what the device holds.
BufferViewAny_read_if_supported(buffer, data) ==
    IF buffer.canRead THEN Some(data) ELSE None

\* Texture2dDataSink::from_raw: the sink is built from the raw image it is
\* handed; the model keeps the raw image itself as the value of the sink.
from_raw(raw) == [raw |-> raw]

Return(v) == [kind |-> "return", value |-> v]
Panic == [kind |-> "panic", value |-> None]

new_empty(facade, capacity) ==
    [buffer     |-> BufferView_empty(facade, capacity),
     dimensions |-> None,
     format     |-> None]

\* variant: reports the byte size of the staged image instead of the capacity
get_size_of_image(self) ==
    IF self.dimensions = None THEN BufferViewAny_get_size(self.buffer)
    ELSE self.dimensions[1][1] * self.dimensions[1][2]

get_size(self) == BufferViewAny_get_size(self.buffer)

\* variant: unwrap_or_default instead of expect, a missing shape reads as 0 x 0
read_if_supported_defaulted(self, devData) ==
    LET r == BufferViewAny_read_if_supported(self.buffer, devData) IN
    IF r = None THEN Return(None)
    ELSE IF self.dimensions = None \/ self.format = None
         THEN Return(Some(from_raw([data |-> r[1], width |-> 0, height |-> 0,
                                    format |-> "U8"])))
    ELSE Return(Some(from_raw([data   |-> r[1],
                               width  |-> self.dimensions[1][1],
                               height |-> self.dimensions[1][2],
                               format |-> self.format[1]])))

\* variant: width and height taken from the wrong tuple fields
read_if_supported_swapped(self, devData) ==
    LET r == BufferViewAny_read_if_supported(self.buffer, devData) IN
    IF r = None THEN Return(None)
    ELSE IF self.dimensions = None THEN Panic
    ELSE IF self.format = None THEN Panic
    ELSE Return(Some(from_raw([data   |-> r[1],
                               width  |-> self.dimensions[1][2],
                               height |-> self.dimensions[1][1],
                               format |-> self.format[1]])))

\* variant: the staged metadata is unwrapped before the backend is asked
read_if_supported_expect_first(self, devData) ==
    IF self.dimensions = None THEN Panic
    ELSE IF self.format = None THEN Panic
    ELSE LET r == BufferViewAny_read_if_supported(self.buffer, devData) IN
         IF r = None THEN Return(None)
         ELSE Return(Some(from_raw([data   |-> r[1],
                                    width  |-> self.dimensions[1][1],
                                    height |-> self.dimensions[1][2],
                                    format |-> self.format[1]])))

read_if_supported(self, devData) ==
    LET r == BufferViewAny_read_if_supported(self.buffer, devData) IN
    IF r = None THEN Return(None)
    ELSE IF self.dimensions = None THEN Panic
    ELSE IF self.format = None THEN Panic
    ELSE Return(Some(from_raw([data   |-> r[1],
                               width  |-> self.dimensions[1][1],
                               height |-> self.dimensions[1][2],
                               format |-> self.format[1]])))

\* read(): read_if_supported().unwrap()
read(self, devData) ==
    LET r == read_if_supported(self, devData) IN
    IF r.kind = "panic" THEN Panic
    ELSE IF r.value = None THEN Panic
    ELSE Return(r.value[1])

\* variant: only the dimensions are recorded
store_infos_dimensions_only(b, dimensions, format) ==
    [b EXCEPT !.dimensions = Some(dimensions)]

store_infos(b, dimensions, format) ==
    [b EXCEPT !.dimensions = Some(dimensions), !.format = Some(format)]

Constructed == [op |-> "new_empty", kind |-> "return", value |-> None]

GetSize ==
    /\ ret' = [op |-> "get_size", kind |-> "return",
               value |-> Some(get_size(pixelBuffer))]
    /\ UNCHANGED <<pixelBuffer, created, lastStore, reads>>

StoreInfos(dimensions, format) ==
    /\ pixelBuffer' = store_infos(pixelBuffer, dimensions, format)
    /\ lastStore' = Some(<<dimensions, format>>)
    /\ ret' = [op |-> "store_infos", kind |-> "return", value |-> None]
    /\ reads' = 0
    /\ UNCHANGED created

\* variant: the read consumes the staged metadata (Option::take)
ReadIfSupported_take(devData) ==
    /\ LET r == read_if_supported(pixelBuffer, devData) IN
         ret' = [op |-> "read_if_supported", kind |-> r.kind, value |-> r.value]
    /\ reads' = IF reads < MaxReads THEN reads + 1 ELSE reads
    /\ pixelBuffer' = [pixelBuffer EXCEPT !.dimensions = None, !.format = None]
    /\ UNCHANGED <<created, lastStore>>

ReadIfSupported(devData) ==
    /\ LET r == read_if_supported(pixelBuffer, devData) IN
         ret' = [op |-> "read_if_supported", kind |-> r.kind, value |-> r.value]
    /\ reads' = IF reads < MaxReads THEN reads + 1 ELSE reads
    /\ UNCHANGED <<pixelBuffer, created, lastStore>>

Read(devData) ==
    /\ LET r == read(pixelBuffer, devData) IN
         ret' = [op |-> "read", kind |-> r.kind, value |-> Some(r.value)]
    /\ reads' = IF reads < MaxReads THEN reads + 1 ELSE reads
    /\ UNCHANGED <<pixelBuffer, created, lastStore>>

----------------------------------------------------------------------------
(* Capability source, versions: the interface the index module requires *)

Apis == {"Gl", "GlEs"}

\* Version(Api, major, minor)
Version(api, major, minor) == <<api, major, minor>>

\* Embedded (OpenGL ES) major versions; desktop ones are 1..MaxMajor.
EsMajors == {2, 3}

Versions ==
    {Version("Gl", M, m) : M \in 1..MaxMajor, m \in 0..MaxMinor}
        \cup {Version("GlEs", M, m) : M \in EsMajors, m \in 0..MaxMinor}

ExtensionFlags ==
    [gl_arb_geometry_shader4    : BOOLEAN,
     gl_ext_geometry_shader4    : BOOLEAN,
     gl_ext_geometry_shader     : BOOLEAN,
     gl_arb_tessellation_shader : BOOLEAN]

CapabilitiesSources == [version : Versions, extensions : ExtensionFlags]

\* `a >= &b` on versions: a version is at least another one only on the
\* same profile, and then major and minor compare lexicographically.
Version_ge(a, b) ==
    /\ a[1] = b[1]
    /\ \/ a[2] > b[2]
       \/ a[2] = b[2] /\ a[3] >= b[3]

get_version(c) == c.version
get_extensions(c) == c.extensions

----------------------------------------------------------------------------
(* PrimitiveType, IndexType, Index: src/src/index/mod.rs *)

Baseline ==
    {"Points", "LinesList", "LineStrip", "LineLoop", "TrianglesList",
     "TriangleStrip", "TriangleFan"}

Adjacency ==
    {"LinesListAdjacency", "LineStripAdjacency", "TrianglesListAdjacency",
     "TriangleStripAdjacency"}

Patches(n) == [tag |-> "Patches", vertices_per_patch |-> n]

PrimitiveType ==
    {[tag |-> t] : t \in Baseline \cup Adjacency}
        \cup {Patches(n) : n \in 0..MaxVerticesPerPatch}

\* variant: adjacency asks for the version where geometry shaders became core
PrimitiveType_is_supported_core32(self, c) ==
    IF self.tag \in Baseline THEN TRUE
    ELSE IF self.tag \in Adjacency THEN
        \/ Version_ge(get_version(c), Version("Gl", 3, 2))
        \/ get_extensions(c).gl_arb_geometry_shader4
        \/ get_extensions(c).gl_ext_geometry_shader4
        \/ get_extensions(c).gl_ext_geometry_shader
    ELSE
        \/ Version_ge(get_version(c), Version("Gl", 4, 0))
        \/ get_extensions(c).gl_arb_tessellation_shader

\* variant: the patch arm also accepts a geometry-shader extension
PrimitiveType_is_supported_geometry_patches(self, c) ==
    IF self.tag \in Baseline THEN TRUE
    ELSE IF self.tag \in Adjacency THEN
        \/ Version_ge(get_version(c), Version("Gl", 3, 0))
        \/ get_extensions(c).gl_arb_geometry_shader4
        \/ get_extensions(c).gl_ext_geometry_shader4
        \/ get_extensions(c).gl_ext_geometry_shader
    ELSE
        \/ Version_ge(get_version(c), Version("Gl", 4, 0))
        \/ get_extensions(c).gl_arb_tessellation_shader
        \/ get_extensions(c).gl_arb_geometry_shader4

PrimitiveType_is_supported(self, c) ==
    IF self.tag \in Baseline THEN TRUE
    ELSE IF self.tag \in Adjacency THEN
        \/ Version_ge(get_version(c), Version("Gl", 3, 0))
        \/ get_extensions(c).gl_arb_geometry_shader4
        \/ get_extensions(c).gl_ext_geometry_shader4
        \/ get_extensions(c).gl_ext_geometry_shader
    ELSE
        \/ Version_ge(get_version(c), Version("Gl", 4, 0))
        \/ get_extensions(c).gl_arb_tessellation_shader

IndexType == {"U8", "U16", "U32"}

\* variant: 32-bit indices gated on the desktop profile only
IndexType_is_supported_desktop_only(self, c) ==
    IF self = "U8" THEN TRUE
    ELSE IF self = "U16" THEN TRUE
    ELSE Version_ge(get_version(c), Version("Gl", 1, 0))

IndexType_is_supported(self, c) ==
    IF self = "U8" THEN TRUE
    ELSE IF self = "U16" THEN TRUE
    ELSE \/ Version_ge(get_version(c), Version("Gl", 1, 0))
         \/ Version_ge(get_version(c), Version("GlEs", 3, 0))

\* The host integer types that implement Index.
IndexImpls == {"u8", "u16", "u32"}

\* <T as Index>::get_type()
Index_get_type(T) ==
    CASE T = "u8"  -> "U8"
      [] T = "u16" -> "U16"
      [] T = "u32" -> "U32"

\* <T as Index>::is_supported(caps), the trait's default method
Index_is_supported(T, c) == IndexType_is_supported(Index_get_type(T), c)

PrimitiveTypeIsSupported(p) ==
    /\ capsRes' = [op |-> "PrimitiveType::is_supported", arg |-> p,
                   value |-> PrimitiveType_is_supported(p, caps)]
    /\ UNCHANGED caps

IndexTypeIsSupported(t) ==
    /\ capsRes' = [op |-> "IndexType::is_supported", arg |-> t,
                   value |-> IndexType_is_supported(t, caps)]
    /\ UNCHANGED caps

IndexIsSupported(T) ==
    /\ capsRes' = [op |-> "Index::is_supported", arg |-> T,
                   value |-> Index_is_supported(T, caps)]
    /\ UNCHANGED caps

----------------------------------------------------------------------------
(* IndicesSource, NoIndices: src/src/index/mod.rs *)

\* BufferAnySlice values are opaque to this module.
BufferAnySlice == 1..MaxSlice

IndicesSource ==
    [tag : {"IndexBuffer"}, buffer : BufferAnySlice, data_type : IndexType,
     primitives : PrimitiveType]
    \cup [tag : {"MultidrawArray"}, buffer : BufferAnySlice,
          primitives : PrimitiveType]
    \cup [tag : {"MultidrawElement"}, commands : BufferAnySlice,
          indices : BufferAnySlice, data_type : IndexType,
          primitives : PrimitiveType]
    \cup [tag : {"NoIndices"}, primitives : PrimitiveType]

\* variant: the topology is rebuilt from its GL enum, which has one code for
\* all patch sizes
get_primitives_type_via_glenum(self) ==
    IF self.primitives.tag = "Patches" THEN Patches(0) ELSE self.primitives

get_primitives_type(self) ==
    CASE self.tag = "IndexBuffer"      -> self.primitives
      [] self.tag = "MultidrawArray"   -> self.primitives
      [] self.tag = "MultidrawElement" -> self.primitives
      [] self.tag = "NoIndices"        -> self.primitives

\* struct NoIndices(pub PrimitiveType)
NoIndices(p) == <<p>>

\* impl From<NoIndices> for IndicesSource
From_NoIndices(marker) == [tag |-> "NoIndices", primitives |-> marker[1]]

\* impl From<&NoIndices> for IndicesSource
From_NoIndices_ref(marker) == [tag |-> "NoIndices", primitives |-> marker[1]]

\* An IndicesSource written out as a variant with its fields.
Construct(src) ==
    /\ indices' = Some(src)
    /\ given' = Some([how |-> "variant", primitives |-> src.primitives])
    /\ UNCHANGED idxRes

Into(p) ==
    /\ indices' = Some(From_NoIndices(NoIndices(p)))
    /\ given' = Some([how |-> "from", primitives |-> p])
    /\ UNCHANGED idxRes

IntoRef(p) ==
    /\ indices' = Some(From_NoIndices_ref(NoIndices(p)))
    /\ given' = Some([how |-> "from_ref", primitives |-> p])
    /\ UNCHANGED idxRes

GetPrimitivesType ==
    /\ indices # None
    /\ idxRes' = [op |-> "get_primitives_type", arg |-> indices[1],
                  value |-> get_primitives_type(indices[1])]
    /\ UNCHANGED <<indices, given>>

----------------------------------------------------------------------------
(* Idle values of the variables a specification does not use *)

NoCaps == [version |-> Version("Gl", 1, 0),
           extensions |-> [gl_arb_geometry_shader4    |-> FALSE,
                           gl_ext_geometry_shader4    |-> FALSE,
                           gl_ext_geometry_shader     |-> FALSE,
                           gl_arb_tessellation_shader |-> FALSE]]
NoCapsRes == [op |-> "none"]
NoIdxRes == [op |-> "none"]

\* A pixel buffer that is not in use: the idle value of SpecCaps, SpecIndices.
NoPixelBuffer ==
    /\ pixelBuffer = new_empty([canRead |-> FALSE], 1)
    /\ created = 1
    /\ lastStore = None
    /\ reads = 0
    /\ ret = Constructed

NoCapsInUse ==
    /\ caps = NoCaps
    /\ capsRes = NoCapsRes

NoIndicesInUse ==
    /\ indices = None
    /\ given = None
    /\ idxRes = NoIdxRes

\* The state right after PixelBuffer::new_empty(facade, capacity).
InitPixel ==
    \E facade \in Facades, capacity \in Capacities :
        /\ pixelBuffer = new_empty(facade, capacity)
        /\ created = capacity
        /\ lastStore = None
        /\ reads = 0
        /\ ret = Constructed

Init ==
    /\ InitPixel
    /\ NoCapsInUse
    /\ NoIndicesInUse

Next ==
    \/ /\ GetSize
       /\ UNCHANGED <<capsVars, indicesVars>>
    \/ /\ \E d \in Dimensions, f \in ClientFormat : StoreInfos(d, f)
       /\ UNCHANGED <<capsVars, indicesVars>>
    \/ /\ \E b \in Bytes : ReadIfSupported(b)
       /\ UNCHANGED <<capsVars, indicesVars>>
    \/ /\ \E b \in Bytes : Read(b)
       /\ UNCHANGED <<capsVars, indicesVars>>

Spec == Init /\ [][Next]_vars

InitCaps ==
    /\ NoPixelBuffer
    /\ caps \in CapabilitiesSources
    /\ capsRes = NoCapsRes
    /\ NoIndicesInUse

NextCaps ==
    \/ /\ \E p \in PrimitiveType : PrimitiveTypeIsSupported(p)
       /\ UNCHANGED <<pixelVars, indicesVars>>
    \/ /\ \E t \in IndexType : IndexTypeIsSupported(t)
       /\ UNCHANGED <<pixelVars, indicesVars>>
    \/ /\ \E T \in IndexImpls : IndexIsSupported(T)
       /\ UNCHANGED <<pixelVars, indicesVars>>

SpecCaps == InitCaps /\ [][NextCaps]_vars

NextIndices ==
    \/ /\ \E src \in IndicesSource : Construct(src)
       /\ UNCHANGED <<pixelVars, capsVars>>
    \/ /\ \E p \in PrimitiveType : Into(p)
       /\ UNCHANGED <<pixelVars, capsVars>>
    \/ /\ \E p \in PrimitiveType : IntoRef(p)
       /\ UNCHANGED <<pixelVars, capsVars>>
    \/ /\ GetPrimitivesType
       /\ UNCHANGED <<pixelVars, capsVars>>

InitIndices ==
    /\ NoPixelBuffer
    /\ NoCapsInUse
    /\ indices = None
    /\ given = None
    /\ idxRes = NoIdxRes

SpecIndices == InitIndices /\ [][NextIndices]_vars

----------------------------------------------------------------------------
(* Properties of the pixel buffer, checked under Spec *)

\* The call that just returned was read_if_supported.
AfterReadIfSupported == ret.op = "read_if_supported"

CanRead == pixelBuffer.buffer.canRead
NeverStored == lastStore = None
ReturnedNone == ret.kind = "return" /\ ret.value = None
ReturnedValue == ret.kind = "return" /\ ret.value # None
Aborted == ret.kind = "panic"

C2_SinkGetsLastStoredInfos ==
    (AfterReadIfSupported /\ ReturnedValue) =>
        /\ lastStore # None
        /\ ret.value[1].raw.width = lastStore[1][1][1]
        /\ ret.value[1].raw.height = lastStore[1][1][2]
        /\ ret.value[1].raw.format = lastStore[1][2]

C2_Witness ==
    /\ AfterReadIfSupported /\ ReturnedValue
    /\ ret.value[1].raw.width # ret.value[1].raw.height
    /\ lastStore = Some(<<<<ret.value[1].raw.width, ret.value[1].raw.height>>,
                          ret.value[1].raw.format>>)

MetadataMissing ==
    pixelBuffer.dimensions = None \/ pixelBuffer.format = None

C4_DimensionsAndFormatTogether ==
    /\ (pixelBuffer.dimensions = None) <=> (pixelBuffer.format = None)
    /\ NeverStored <=> (pixelBuffer.dimensions = None)

C4_Witness ==
    /\ ~NeverStored
    /\ pixelBuffer.dimensions # None /\ pixelBuffer.format # None

\* C5: get_size returns the capacity passed to new_empty, after any
\* sequence of store_infos, read_if_supported and get_size calls.
C5_GetSizeIsCapacity ==
    /\ get_size(pixelBuffer) = created
    /\ ret.op = "get_size" => ret.value = Some(created)

C5_Witness ==
    /\ ret.op = "get_size" /\ ret.value = Some(created)
    /\ ~NeverStored /\ reads > 0
    /\ lastStore[1][1][1] * lastStore[1][1][2] # created

\* C10: a read_if_supported step leaves dimensions, format and capacity of
\* the buffer unchanged; no step unsets staged metadata; and after
\* store_infos every read_if_supported on a backend that can read returns a
\* value without aborting.
C10_ReadKeepsBufferReadable ==
    /\ [][/\ ret'.op = "read_if_supported" => pixelBuffer' = pixelBuffer
          /\ pixelBuffer.dimensions # None => pixelBuffer'.dimensions # None
          /\ pixelBuffer.format # None => pixelBuffer'.format # None]_vars
    /\ [](AfterReadIfSupported /\ ~NeverStored /\ CanRead => ReturnedValue)

C10_Witness ==
    /\ AfterReadIfSupported /\ ~NeverStored /\ CanRead
    /\ reads >= 2 /\ ReturnedValue

----------------------------------------------------------------------------
(* Properties of the capability predicates, checked under SpecCaps *)

\* (major, minor) of v is at least (M, m), whatever the profile of v.
NumberAtLeast(v, M, m) == v[2] > M \/ (v[2] = M /\ v[3] >= m)

AnyGeometryShaderExtension ==
    \/ caps.extensions.gl_arb_geometry_shader4
    \/ caps.extensions.gl_ext_geometry_shader4
    \/ caps.extensions.gl_ext_geometry_shader

AfterAdjacencyQuery ==
    /\ capsRes.op = "PrimitiveType::is_supported"
    /\ capsRes.arg.tag \in Adjacency

\* C6 (as stated): for the four adjacency topologies and every capability
\* source, is_supported is true iff the reported version is >= (3,0) or a
\* geometry-shader extension flag is set.
C6_AdjacencyIffVersion30OrExtension ==
    AfterAdjacencyQuery =>
        (capsRes.value <=> (\/ NumberAtLeast(caps.version, 3, 0)
                            \/ AnyGeometryShaderExtension))

\* C6 (amended): for the four adjacency topologies and every capability
\* source, is_supported is true iff the reported version is a desktop
\* OpenGL version >= (3,0) or a geometry-shader extension flag is set.
C6_AdjacencyIffDesktop30OrExtension ==
    AfterAdjacencyQuery =>
        (capsRes.value <=> (\/ /\ caps.version[1] = "Gl"
                               /\ NumberAtLeast(caps.version, 3, 0)
                            \/ AnyGeometryShaderExtension))

C6_Witness ==
    /\ AfterAdjacencyQuery
    /\ caps.version = Version("Gl", 3, 0)
    /\ ~AnyGeometryShaderExtension
    /\ capsRes.value = TRUE

AfterPatchesQuery ==
    /\ capsRes.op = "PrimitiveType::is_supported"
    /\ capsRes.arg.tag = "Patches"

C8_IndexTypeSupport ==
    /\ capsRes.op = "IndexType::is_supported" =>
          /\ capsRes.arg \in {"U8", "U16"} => capsRes.value
          /\ ( /\ capsRes.arg = "U32"
               /\ \/ caps.version[1] = "Gl" /\ NumberAtLeast(caps.version, 1, 0)
                  \/ caps.version[1] = "GlEs" /\ NumberAtLeast(caps.version, 3, 0) )
             => capsRes.value
    /\ capsRes.op = "Index::is_supported" =>
          /\ capsRes.arg = "u8" => capsRes.value = IndexType_is_supported("U8", caps)
          /\ capsRes.arg = "u16" => capsRes.value = IndexType_is_supported("U16", caps)
          /\ capsRes.arg = "u32" => capsRes.value = IndexType_is_supported("U32", caps)

C8_Witness ==
    /\ capsRes.op = "IndexType::is_supported"
    /\ capsRes.arg = "U32"
    /\ caps.version = Version("GlEs", 3, 0)
    /\ capsRes.value = TRUE

----------------------------------------------------------------------------
(* Properties of IndicesSource, checked under SpecIndices *)

\* C9: get_primitives_type of an IndicesSource of any of the four variants
\* is the PrimitiveType it was built with, and converting NoIndices(p), by
\* value or by reference, gives the variant NoIndices with primitives = p.
C9_PrimitivesRoundTrip ==
    /\ indices # None =>
          get_primitives_type(indices[1]) = given[1].primitives
    /\ (idxRes.op = "get_primitives_type" /\ indices = Some(idxRes.arg)) =>
          idxRes.value = given[1].primitives
    /\ (given # None /\ given[1].how \in {"from", "from_ref"}) =>
          indices = Some([tag |-> "NoIndices",
                          primitives |-> given[1].primitives])

C9_Witness ==
    /\ given = Some([how |-> "from", primitives |-> Patches(MaxVerticesPerPatch)])
    /\ idxRes.op = "get_primitives_type"
    /\ indices = Some(idxRes.arg)
    /\ idxRes.value = Patches(MaxVerticesPerPatch)

====
